---- MODULE Spec2Model ----
(***************************************************************************)
(* A model of photorganize.py: Photo construction and ordering, the three  *)
(* commands with their simulated and real execution, the decision prompts, *)
(* and Organizer.prepare / simulate / execute / run.                       *)
(***************************************************************************)
EXTENDS Integers, Sequences, FiniteSets, TLC

VARIABLES
    fs,                   \* the real filesystem under Organizer.path: path -> entry
    fs0,                  \* history: the filesystem when the current run started
    pc,                   \* position of the control flow inside Organizer.run
    run_no,               \* which invocation of the program this is (1 or 2)
    simulate_only,        \* the argument of Organizer.run
    listing,              \* children that the running iterdir() has yet to yield
    dirs,                 \* prepare: the local list dirs
    disorganized_photos,  \* prepare: dict month -> list of Photo, in insertion order
    organized_photos,     \* prepare: dict month -> list of Photo
    unique_photos,        \* prepare: dict month -> list of Photo
    mi,                   \* index of the month a loop over a dict is at
    pi,                   \* index of the photo the duplicate loop is at
    commands,             \* Organizer.commands
    simulacrum,           \* the list built by _create_simulacrum
    ci,                   \* index of the command a simulate/execute loop is at
    prompts,              \* history: the consultations of the UserPrompter, in order
    trace,                \* history: what simulate and execute did, in order
    arg,                  \* input of the function a function-level specification applies
    res                   \* its result

vars == <<fs, fs0, pc, run_no, simulate_only, listing, dirs, disorganized_photos,
          organized_photos, unique_photos, mi, pi, commands, simulacrum, ci,
          prompts, trace, arg, res>>

-----------------------------------------------------------------------------
(* Bounds of the model.                                                    *)

\* at most this many photo files exist under the target when the program starts
MaxFiles == 3
\* the program is invoked at most this many times in a row
MaxRuns == 2

-----------------------------------------------------------------------------
(* datetime.datetime values.  mo is year+month, s the day-to-second part   *)
(* inside the month, us the sub-second part.                               *)

dt(mo, s, us) == [mo |-> mo, s |-> s, us |-> us]

\* datetime.datetime.min: 0001-01-01 00:00:00, the first second of month 0
DatetimeMin == dt(0, 0, 0)

\* datetime.__lt__
DatetimeLess(a, b) ==
    \/ a.mo < b.mo
    \/ a.mo = b.mo /\ a.s < b.s
    \/ a.mo = b.mo /\ a.s = b.s /\ a.us < b.us

\* datetime.isoformat(sep=' ', timespec='seconds'): the sub-second part is dropped
isoformat(d) == [mo |-> d.mo, s |-> d.s]

\* datetime.date(d.year, d.month, 1)
MonthOf(d) == d.mo

\* fromisoformat(stem[:-4]) and strptime(str, "%Y:%m:%d %H:%M:%S") of a text that
\* spells the second f: a datetime with no sub-second part
ParsedSecond(f) == dt(f.mo, f.s, 0)

-----------------------------------------------------------------------------
(* Paths.  A path under the target is the sequence of its components; the  *)
(* target itself is <<>>.  A component is a record:                        *)
(*   [k |-> "org", fmt, n, ext]  "YYYY-MM-DD hh:mm:ss NNN<ext>"            *)
(*   [k |-> "raw", id, ext]      a name starting with a letter, "a<ext>"   *)
(*   [k |-> "month", mo]         "YYYY-MM", no suffix                      *)
(*   [k |-> "up"]                ".." as first component: a path that lies *)
(*                               outside the target, in its parent         *)

OrgName(f, n, ext) == [k |-> "org", fmt |-> f, n |-> n, ext |-> ext]
RawName(id, ext)   == [k |-> "raw", id |-> id, ext |-> ext]
\* month.strftime("%Y-%m")
MonthName(mo)      == [k |-> "month", mo |-> mo]

\* Path.suffix
Suffix(name) == IF name.k = "month" THEN "" ELSE name.ext

\* str.lower() of a suffix
Lower(ext) == IF ext = ".JPG" THEN ".jpg" ELSE ext

\* len(self.path.stem) == 23
StemLen23(name) == name.k = "org"

\* ".."
UpName == [k |-> "up"]

\* the path lies outside the target directory
Outside(path) == path # <<>> /\ path[1] = UpName

\* len(path.parents), counted from the target directory
Depth(path) == IF Outside(path) THEN Len(path) - 2 ELSE Len(path)

\* The rank of an extension text among the extension texts, in str order
ExtRank(ext) ==
    CASE ext = ""     -> 0
      [] ext = ".JPG" -> 1
      [] ext = ".jpg" -> 2
      [] ext = ".png" -> 3
      [] OTHER        -> 4

\* lexicographic order on tuples of naturals of the same length
RECURSIVE TupleLess(_, _)
TupleLess(a, b) ==
    IF a = <<>> THEN FALSE
    ELSE \/ Head(a) < Head(b)
         \/ Head(a) = Head(b) /\ TupleLess(Tail(a), Tail(b))

\* The characters of a file name as a tuple that compares as the str does: names
\* made of a timestamp start with a digit and so come before the names that
\* start with a letter; month directory names are shorter prefixes of timestamps.
NameKey(name) ==
    CASE name.k = "month" -> <<0, name.mo, 0, 0, 0, 0>>
      [] name.k = "org"   -> <<0, name.fmt.mo, 1, name.fmt.s, name.n, ExtRank(name.ext)>>
      [] OTHER            -> <<1, name.id, ExtRank(name.ext), 0, 0, 0>>

\* str.__lt__ on path.name
NameLess(a, b) == TupleLess(NameKey(a), NameKey(b))

\* Path(self.path, month_str)
MonthDir(mo) == <<MonthName(mo)>>

\* Path.parent
Parent(path) == SubSeq(path, 1, Len(path) - 1)

\* Path.name
Basename(path) == path[Len(path)]

-----------------------------------------------------------------------------
(* Photo.                                                                  *)

\* The outcome of reading or parsing a text that should spell a second: the
\* text is not there, is there and does not parse, or spells the second f
Absent   == [st |-> "absent"]
Bad      == [st |-> "bad"]
Spelt(f) == [st |-> "ok", f |-> f]

\* A mutant of __init__: the filename step comes last and overrides the metadata
ResolveDatetime_filenameWins(stem23, stemParse, isImage, tags, mtime) ==
    LET first   == IF tags.original # Absent THEN tags.original
                   ELSE IF tags.digitized # Absent THEN tags.digitized
                   ELSE tags.generic
        byMtime == [datetime |-> mtime, datetime_src |-> "mtime"]
        byExif  == IF isImage /\ first.st = "ok"
                   THEN [datetime |-> ParsedSecond(first.f), datetime_src |-> "exif"]
                   ELSE byMtime
    IN  IF stem23 /\ stemParse.st = "ok"
        THEN [datetime |-> ParsedSecond(stemParse.f), datetime_src |-> "filename"]
        ELSE byExif

\* Photo.__init__, the part that sets datetime and datetime_src.  stem23 is
\* len(stem) == 23, stemParse the outcome of fromisoformat(stem[:-4]), isImage
\* whether Image.open identifies the file, tags the three entries of self.exif
ResolveDatetime(stem23, stemParse, isImage, tags, mtime) ==
    LET byMtime == [datetime |-> mtime, datetime_src |-> "mtime"]
        byName  == IF stem23 /\ stemParse.st = "ok"
                   THEN [datetime |-> ParsedSecond(stemParse.f), datetime_src |-> "filename"]
                   ELSE byMtime
        \* strptime(datetime_str, ...) inside the last try
        parse(t) == IF t.st = "ok"
                    THEN [datetime |-> ParsedSecond(t.f), datetime_src |-> "exif"]
                    ELSE byName                      \* ValueError: return
    IN  IF ~isImage THEN byName                      \* UnidentifiedImageError: return
        ELSE IF tags.original # Absent THEN parse(tags.original)
        ELSE IF tags.digitized # Absent THEN parse(tags.digitized)
        ELSE IF tags.generic # Absent THEN parse(tags.generic)
        ELSE byName                                  \* no datetime tag: return

\* The outcome of fromisoformat(stem[:-4]) for a name
StemParse(name) == IF name.k = "org" THEN Spelt(name.fmt) ELSE Bad

\* Path(path).expanduser().resolve(): the entry of a symbolic link names, as
\* to, the file it points at
resolve(path, e) == IF "to" \in DOMAIN e THEN e.to ELSE path

\* Photo(path) for the file entry e found at path
Photo(path, e) ==
    LET real == resolve(path, e)
        r    == ResolveDatetime(StemLen23(Basename(real)), StemParse(Basename(real)),
                                e.isImage, e.tags, e.mtime)
    IN  [path |-> real, size |-> e.size, hash |-> e.hash,
         datetime |-> r.datetime, datetime_src |-> r.datetime_src]

\* Photo.__lt__
PhotoLess(a, b) ==
    IF a.datetime # b.datetime THEN DatetimeLess(a.datetime, b.datetime)
    ELSE IF Depth(a.path) # Depth(b.path) THEN Depth(a.path) > Depth(b.path)
    ELSE NameLess(Basename(a.path), Basename(b.path))

\* Photo.is_duplicate_of
is_duplicate_of(a, b) == a.size = b.size /\ a.hash = b.hash

\* list.sort() with Photo.__lt__: a stable insertion of each element in turn
RECURSIVE InsertSorted(_, _)
InsertSorted(x, s) ==
    IF s = <<>> THEN <<x>>
    ELSE IF PhotoLess(x, s[Len(s)]) THEN Append(InsertSorted(x, SubSeq(s, 1, Len(s) - 1)), s[Len(s)])
    ELSE Append(s, x)

RECURSIVE SortPhotos(_)
SortPhotos(s) ==
    IF s = <<>> THEN <<>>
    ELSE InsertSorted(s[Len(s)], SortPhotos(SubSeq(s, 1, Len(s) - 1)))

-----------------------------------------------------------------------------
(* The filesystem.  fs maps each existing path under the target to its     *)
(* entry: [kind |-> "dir"], or a file with the attributes Photo reads.  A  *)
(* symbolic link to a file is a file entry with the attributes of the file *)
(* it points at (stat follows the link) and the field to, the path of that *)
(* file.  A file outside the target that a link points at is in fs too.    *)

DirEntry == [kind |-> "dir"]

\* the entry at path is no symbolic link, or a link whose file is there
Live(f, path) == "to" \in DOMAIN f[path] => f[path].to \in DOMAIN f

\* Path.exists(); the target directory itself always exists
exists(f, path) == path = <<>> \/ (path \in DOMAIN f /\ Live(f, path))

\* Path.is_dir()
is_dir(f, path) == path = <<>> \/ (path \in DOMAIN f /\ f[path].kind = "dir")

\* Path.is_file()
is_file(f, path) == path \in DOMAIN f /\ f[path].kind = "file" /\ Live(f, path)

\* does path lie at or under top
Under(path, top) == Len(path) >= Len(top) /\ SubSeq(path, 1, Len(top)) = top

\* A mutant of iterdir: the listing descends into the subdirectories
iterdir_recursive(f, path) == {p \in DOMAIN f : Len(p) > Len(path) /\ Under(p, path)}

\* Path.iterdir(): the children of a directory, as a set; the order in which
\* they are yielded is arbitrary
iterdir(f, path) == {p \in DOMAIN f : Len(p) = Len(path) + 1 /\ Parent(p) = path}

-----------------------------------------------------------------------------
(* Commands.                                                               *)

MakeDirectory(directory) == [op |-> "mkdir", directory |-> directory]
Move(source, dest)       == [op |-> "mv", source |-> source, dest |-> dest]
Remove(target)           == [op |-> "rm", target |-> target]

\* The paths a command names
CmdPaths(cmd) ==
    CASE cmd.op = "mkdir" -> {cmd.directory}
      [] cmd.op = "mv"    -> {cmd.source, cmd.dest}
      [] OTHER            -> {cmd.target}

\* MakeDirectory.simulate
MakeDirectory_simulate(cmd, sim) ==
    IF cmd.directory \in sim THEN [ok |-> FALSE, sim |-> sim]      \* FileExistsError
    ELSE [ok |-> TRUE, sim |-> sim \cup {cmd.directory}]

\* A mutant of Move.simulate: an occupied destination is not tested for
Move_simulate_overwrites(cmd, sim) ==
    IF cmd.source \notin sim THEN [ok |-> FALSE, sim |-> sim]
    ELSE [ok |-> TRUE, sim |-> (sim \cup {cmd.dest}) \ {cmd.source}]

\* Move.simulate
Move_simulate(cmd, sim) ==
    IF cmd.source \notin sim THEN [ok |-> FALSE, sim |-> sim]      \* FileNotFoundError
    ELSE IF cmd.dest \in sim THEN [ok |-> FALSE, sim |-> sim]      \* FileExistsError
    ELSE [ok |-> TRUE, sim |-> (sim \cup {cmd.dest}) \ {cmd.source}]

\* A mutant of Remove.simulate: the name of the target is not looked at
Remove_simulate_anyName(cmd, sim) ==
    IF cmd.target \notin sim THEN [ok |-> FALSE, sim |-> sim]
    ELSE [ok |-> TRUE, sim |-> sim \ {cmd.target}]

\* Remove.simulate; len(target.suffixes) == 0 is the test for a directory
Remove_simulate(cmd, sim) ==
    IF cmd.target \notin sim THEN [ok |-> FALSE, sim |-> sim]      \* FileNotFoundError
    ELSE IF Suffix(Basename(cmd.target)) = ""
         THEN [ok |-> FALSE, sim |-> sim]                          \* IsADirectoryError
    ELSE [ok |-> TRUE, sim |-> sim \ {cmd.target}]

\* cmd.simulate(simulacrum)
Simulate(cmd, sim) ==
    CASE cmd.op = "mkdir" -> MakeDirectory_simulate(cmd, sim)
      [] cmd.op = "mv"    -> Move_simulate(cmd, sim)
      [] OTHER            -> Remove_simulate(cmd, sim)

\* MakeDirectory.execute
MakeDirectory_execute(cmd, f) ==
    IF exists(f, cmd.directory) THEN [ok |-> FALSE, fs |-> f]      \* FileExistsError
    ELSE IF ~is_dir(f, Parent(cmd.directory)) THEN [ok |-> FALSE, fs |-> f]  \* mkdir raises
    ELSE [ok |-> TRUE,
          fs |-> [p \in DOMAIN f \cup {cmd.directory} |->
                    IF p = cmd.directory THEN DirEntry ELSE f[p]]]

\* Path.rename(dest) of an existing source onto a free destination: the entry
\* and everything under it changes place
Renamed(f, source, dest) ==
    LET moved == {p \in DOMAIN f : Under(p, source)}
        to(p) == dest \o SubSeq(p, Len(source) + 1, Len(p))
        from(q) == source \o SubSeq(q, Len(dest) + 1, Len(q))
        newdom == (DOMAIN f \ moved) \cup {to(p) : p \in moved}
    IN  [q \in newdom |-> IF Under(q, dest) THEN f[from(q)] ELSE f[q]]

\* A mutant of Move.execute: the rename is done before the test of the
\* destination, so an occupied destination is replaced and then reported
Move_execute_clobbers(cmd, f) ==
    IF ~exists(f, cmd.source) THEN [ok |-> FALSE, fs |-> f]
    ELSE IF exists(f, cmd.dest)
         THEN [ok |-> FALSE,
               fs |-> Renamed([p \in {q \in DOMAIN f : ~Under(q, cmd.dest)} |-> f[p]],
                              cmd.source, cmd.dest)]
    ELSE IF ~is_dir(f, Parent(cmd.dest)) THEN [ok |-> FALSE, fs |-> f]
    ELSE [ok |-> TRUE, fs |-> Renamed(f, cmd.source, cmd.dest)]

\* Move.execute
Move_execute(cmd, f) ==
    IF ~exists(f, cmd.source) THEN [ok |-> FALSE, fs |-> f]        \* FileNotFoundError
    ELSE IF exists(f, cmd.dest) THEN [ok |-> FALSE, fs |-> f]      \* FileExistsError
    ELSE IF ~is_dir(f, Parent(cmd.dest)) THEN [ok |-> FALSE, fs |-> f]  \* rename raises
    ELSE [ok |-> TRUE, fs |-> Renamed(f, cmd.source, cmd.dest)]

\* Remove.execute
Remove_execute(cmd, f) ==
    IF ~exists(f, cmd.target) THEN [ok |-> FALSE, fs |-> f]        \* FileNotFoundError
    ELSE IF is_dir(f, cmd.target) THEN [ok |-> FALSE, fs |-> f]    \* IsADirectoryError
    ELSE [ok |-> TRUE, fs |-> [p \in DOMAIN f \ {cmd.target} |-> f[p]]]

\* cmd.execute()
Execute(cmd, f) ==
    CASE cmd.op = "mkdir" -> MakeDirectory_execute(cmd, f)
      [] cmd.op = "mv"    -> Move_execute(cmd, f)
      [] OTHER            -> Remove_execute(cmd, f)

\* Organizer._create_simulacrum: every path found under the target, recursively
create_simulacrum(f) == {p \in DOMAIN f : ~Outside(p)}

-----------------------------------------------------------------------------
(* UserPrompter.  The answer that ends the prompt loop is an input:        *)
(* "k", "a", "d", or "i" together with the datetime typed in.              *)

Answer(a)       == [a |-> a]
AnswerInput(d)  == [a |-> "i", datetime |-> d]

\* A mutant of the prompter: the answer abort returns like the answer keep
datetime_uncertain_exits_never(answer) == FALSE

\* UserPrompter.datetime_uncertain: "if answer == 'a': sys.exit(...)"
datetime_uncertain_exits(answer) == answer.a = "a"

\* UserPrompter.duplicate_found: "elif answer == 'a': sys.exit(...)"
duplicate_found_exits(answer) == answer.a = "a"

\* UserPrompter.datetime_uncertain, when it returns: the photo as it leaves it
datetime_uncertain(photo, answer) ==
    IF answer.a = "i"
    THEN [photo EXCEPT !.datetime = answer.datetime, !.datetime_src = "user"]
    ELSE photo

\* UserPrompter.duplicate_found, when it returns: the commands to append
duplicate_found(original, duplicate, answer) ==
    IF answer.a = "d" THEN <<Remove(duplicate.path)>> ELSE <<>>

-----------------------------------------------------------------------------
(* Python dicts with keys in insertion order: a sequence of [key, val].    *)

DictKeys(d)   == {d[i].key : i \in 1..Len(d)}
DictGet(d, k) == d[CHOOSE i \in 1..Len(d) : d[i].key = k].val
\* d[k] = v
DictSet(d, k, v) ==
    IF k \in DictKeys(d)
    THEN [i \in 1..Len(d) |-> IF d[i].key = k THEN [key |-> k, val |-> v] ELSE d[i]]
    ELSE Append(d, [key |-> k, val |-> v])
\* d.setdefault(k, list()).append(x)
SetDefaultAppend(d, k, x) ==
    IF k \in DictKeys(d) THEN DictSet(d, k, Append(DictGet(d, k), x))
    ELSE Append(d, [key |-> k, val |-> <<x>>])

-----------------------------------------------------------------------------
(* Organizer.prepare, in pieces.                                           *)

\* Organizer.extentions, the default
extentions == {".jpg", ".jpeg", ".png", ".gif"}

\* child.is_file() and child.suffix.lower() in self.extentions
IsPhotoFile(f, child) ==
    is_file(f, child) /\ Lower(Suffix(Basename(child))) \in extentions

\* A mutant of the test: a datetime read from the filename counts as certain
Uncertain_unlessFilename(photo) == photo.datetime_src \notin {"exif", "filename"}

\* photo.datetime_src != "exif"
Uncertain(photo) == photo.datetime_src # "exif"

\* The index of the first element of list that photo is a duplicate of, 0 if none
FirstDuplicate(photo, list) ==
    IF \E j \in 1..Len(list) : is_duplicate_of(photo, list[j])
    THEN CHOOSE j \in 1..Len(list) :
            /\ is_duplicate_of(photo, list[j])
            /\ \A h \in 1..(j - 1) : ~is_duplicate_of(photo, list[h])
    ELSE 0

\* The body of the loop over photos_for_month for the photo at index i: the
\* duplicate found among the organized photos (0 if none), the duplicate found
\* among photos_for_month[:i] (0 if none)
DuplicateOrganized(photo, organized) == FirstDuplicate(photo, organized)
DuplicateEarlier(photos_for_month, i) ==
    FirstDuplicate(photos_for_month[i], SubSeq(photos_for_month, 1, i - 1))

\* The loop that determines ###: n and last_datetime_formatted before the loop,
\* and after the body has run for one more photo
NumberingStart == [n |-> 1, last |-> isoformat(DatetimeMin)]

NumberingStep(st, photo_datetime_formatted) ==
    IF st.last = photo_datetime_formatted
    THEN [n |-> st.n + 1, last |-> st.last]
    ELSE [n |-> 1, last |-> photo_datetime_formatted]

\* n and last_datetime_formatted after the first k photos of the list
RECURSIVE Numbering(_, _)
Numbering(photos, k) ==
    IF k = 0 THEN NumberingStart
    ELSE NumberingStep(Numbering(photos, k - 1), isoformat(photos[k].datetime))

\* dest of the k-th photo of the month's list
Dest(month, photos, k) ==
    MonthDir(month) \o <<OrgName(isoformat(photos[k].datetime),
                                 Numbering(photos, k).n,
                                 Suffix(Basename(photos[k].path)))>>

\* The Move commands the loop appends for the first k photos of the month
RECURSIVE MoveCommands(_, _, _)
MoveCommands(month, photos, k) ==
    IF k = 0 THEN <<>>
    ELSE LET before == MoveCommands(month, photos, k - 1)
             dest   == Dest(month, photos, k)
         IN  IF dest = photos[k].path THEN before
             ELSE Append(before, Move(photos[k].path, dest))

-----------------------------------------------------------------------------
(* The files the model starts from.                                        *)

Second(mo, s) == [mo |-> mo, s |-> s]

\* what the DateTimeOriginal tag of a file may be
ExifChoices == {Absent, Spelt(Second(0, 0)), Spelt(Second(1, 0))}

\* what st_mtime of a file may be
MtimeChoices == {dt(1, 0, 1)}

\* what a file may hold: length and digest
Contents == {[size |-> 1, hash |-> 1], [size |-> 1, hash |-> 2]}

\* what the user may type at "Which datetime?"
UserDatetimes == {dt(1, 1, 0)}

FileEntry(c, tag, mtime) ==
    [kind |-> "file", size |-> c.size, hash |-> c.hash, isImage |-> TRUE,
     tags |-> [original |-> tag, digitized |-> Absent, generic |-> Absent],
     mtime |-> mtime]

\* the photo files that may exist: two directly under the target, three inside
\* month directories
Candidates ==
    <<<<RawName(1, ".jpg")>>,
      <<RawName(2, ".jpg")>>,
      MonthDir(1) \o <<OrgName(Second(1, 0), 1, ".jpg")>>,
      MonthDir(1) \o <<OrgName(Second(1, 0), 2, ".jpg")>>,
      MonthDir(0) \o <<OrgName(Second(0, 0), 1, ".jpg")>>>>

CandidateSet == {Candidates[j] : j \in 1..Len(Candidates)}

\* Digests are compared for equality only, so which of two digests a file holds
\* matters only relative to the other files: the first file present holds the
\* first content
FirstHoldsFirst(S, at) ==
    \A j \in 1..Len(Candidates) :
        (Candidates[j] \in S /\ \A h \in 1..(j - 1) : Candidates[h] \notin S)
            => at[Candidates[j]].hash = 1

MonthDirs == {MonthDir(0), MonthDir(1)}

AllEntries == {FileEntry(c, t, m) : c \in Contents, t \in ExifChoices, m \in MtimeChoices}

\* what the user may answer to the two prompts
DatetimeAnswers  == {Answer("k"), Answer("a")} \cup {AnswerInput(d) : d \in UserDatetimes}
DuplicateAnswers == {Answer("k"), Answer("d"), Answer("a")}

-----------------------------------------------------------------------------
(* The state when Organizer.run is called.                                 *)

\* Organizer.__init__ and the first lines of prepare, on the filesystem f
Started(f) ==
    /\ fs0 = f
    /\ pc = "scan_root"
    /\ listing = iterdir(f, <<>>)
    /\ dirs = {}
    /\ disorganized_photos = <<>>
    /\ organized_photos = <<>>
    /\ unique_photos = <<>>
    /\ mi = 1
    /\ pi = 1
    /\ commands = <<>>
    /\ simulacrum = {}
    /\ ci = 1

Init ==
    /\ \E S \in SUBSET CandidateSet, D \in SUBSET MonthDirs :
          /\ Cardinality(S) <= MaxFiles
          /\ \A p \in S : Len(p) = 2 => Parent(p) \in D
          /\ \E at \in [S -> AllEntries] :
                /\ FirstHoldsFirst(S, at)
                /\ fs = [p \in S \cup D |-> IF p \in D THEN DirEntry ELSE at[p]]
    /\ Started(fs)
    /\ run_no = 1
    /\ simulate_only = FALSE
    /\ prompts = <<>>
    /\ trace = <<>>
    /\ arg = <<>>
    /\ res = <<>>

-----------------------------------------------------------------------------
(* Organizer.prepare.                                                      *)

\* The records of the history prompts: a call of datetime_uncertain with the
\* photo as constructed, a call of duplicate_found with its two photos
DatetimePrompt(photo, answer) ==
    [run |-> run_no, kind |-> "datetime", path |-> photo.path,
     src |-> photo.datetime_src, answer |-> answer.a]

DuplicatePrompt(original, duplicate, answer) ==
    [run |-> run_no, kind |-> "duplicate", original |-> original,
     duplicate |-> duplicate, answer |-> answer.a]

\* The children iterdir() may yield next.  The order of the listing is arbitrary;
\* prepare only appends the directories to dirs, which it reads after the loop,
\* so the model yields the directories first, in the order of their names, and
\* the other children in every order.
YieldedNext(f, rest) ==
    LET ds == {p \in rest : is_dir(f, p)}
    IN  IF ds = {} THEN rest
        ELSE {p \in ds : \A q \in ds : ~NameLess(Basename(q), Basename(p))}

\* One iteration of "for child in self.path.iterdir()"
ScanRootChild ==
    /\ pc = "scan_root"
    /\ \E child \in YieldedNext(fs, listing) :
          /\ listing' = listing \ {child}
          /\ IF is_dir(fs, child)
             THEN /\ dirs' = dirs \cup {child}
                  /\ UNCHANGED <<pc, disorganized_photos, prompts>>
             ELSE IF IsPhotoFile(fs, child)
             THEN LET photo == Photo(child, fs[child])
                  IN  /\ dirs' = dirs
                      /\ IF Uncertain(photo)
                         THEN \E answer \in DatetimeAnswers :
                                /\ prompts' = Append(prompts, DatetimePrompt(photo, answer))
                                /\ IF datetime_uncertain_exits(answer)
                                   THEN /\ pc' = "exit"            \* sys.exit
                                        /\ UNCHANGED disorganized_photos
                                   ELSE LET asked == datetime_uncertain(photo, answer)
                                        IN  /\ disorganized_photos' =
                                                  SetDefaultAppend(disorganized_photos,
                                                                   MonthOf(asked.datetime), asked)
                                            /\ pc' = pc
                         ELSE /\ disorganized_photos' =
                                    SetDefaultAppend(disorganized_photos,
                                                     MonthOf(photo.datetime), photo)
                              /\ UNCHANGED <<pc, prompts>>
             ELSE UNCHANGED <<pc, dirs, disorganized_photos, prompts>>
    /\ UNCHANGED <<fs, fs0, run_no, simulate_only, organized_photos, unique_photos,
                   mi, pi, commands, simulacrum, ci, trace, arg, res>>

\* The listing of the target is exhausted
ScanRootDone ==
    /\ pc = "scan_root"
    /\ listing = {}
    /\ pc' = "months"
    /\ mi' = 1
    /\ UNCHANGED <<fs, fs0, run_no, simulate_only, listing, dirs, disorganized_photos,
                   organized_photos, unique_photos, pi, commands, simulacrum, ci,
                   prompts, trace, arg, res>>

\* One iteration of "for month in disorganized_photos.keys()", up to the inner loop
MonthStep ==
    /\ pc = "months"
    /\ mi <= Len(disorganized_photos)
    /\ LET month == disorganized_photos[mi].key
       IN  /\ organized_photos' = DictSet(organized_photos, month, <<>>)
           /\ IF MonthDir(month) \notin dirs
              THEN /\ commands' = Append(commands, MakeDirectory(MonthDir(month)))
                   /\ mi' = mi + 1
                   /\ UNCHANGED <<pc, listing>>
              ELSE /\ listing' = iterdir(fs, MonthDir(month))
                   /\ pc' = "scan_month"
                   /\ UNCHANGED <<commands, mi>>
    /\ UNCHANGED <<fs, fs0, run_no, simulate_only, dirs, disorganized_photos,
                   unique_photos, pi, simulacrum, ci, prompts, trace, arg, res>>

\* One iteration of "for child in Path(self.path, month_str).iterdir()"
ScanMonthChild ==
    /\ pc = "scan_month"
    /\ LET month == disorganized_photos[mi].key
           pool  == DictGet(organized_photos, month)
       IN  \E child \in listing :
             /\ listing' = listing \ {child}
             /\ IF IsPhotoFile(fs, child)
                THEN LET photo == Photo(child, fs[child])
                     IN  IF Uncertain(photo)
                         THEN \E answer \in DatetimeAnswers :
                                /\ prompts' = Append(prompts, DatetimePrompt(photo, answer))
                                /\ IF datetime_uncertain_exits(answer)
                                   THEN /\ pc' = "exit"            \* sys.exit
                                        /\ UNCHANGED organized_photos
                                   ELSE /\ organized_photos' =
                                              DictSet(organized_photos, month,
                                                  Append(pool, datetime_uncertain(photo, answer)))
                                        /\ pc' = pc
                         ELSE /\ organized_photos' =
                                    DictSet(organized_photos, month, Append(pool, photo))
                              /\ UNCHANGED <<pc, prompts>>
                ELSE UNCHANGED <<pc, organized_photos, prompts>>
    /\ UNCHANGED <<fs, fs0, run_no, simulate_only, dirs, disorganized_photos,
                   unique_photos, mi, pi, commands, simulacrum, ci, trace, arg, res>>

\* The listing of the month directory is exhausted
ScanMonthDone ==
    /\ pc = "scan_month"
    /\ listing = {}
    /\ pc' = "months"
    /\ mi' = mi + 1
    /\ UNCHANGED <<fs, fs0, run_no, simulate_only, listing, dirs, disorganized_photos,
                   organized_photos, unique_photos, pi, commands, simulacrum, ci,
                   prompts, trace, arg, res>>

\* The loop over the months is exhausted
MonthsDone ==
    /\ pc = "months"
    /\ mi > Len(disorganized_photos)
    /\ pc' = "duplicates"
    /\ mi' = 1
    /\ pi' = 1
    /\ UNCHANGED <<fs, fs0, run_no, simulate_only, listing, dirs, disorganized_photos,
                   organized_photos, unique_photos, commands, simulacrum, ci,
                   prompts, trace, arg, res>>

\* One iteration of "for i, photo in enumerate(photos_for_month)": the check
\* against the organized photos, then the check against photos_for_month[:i]
CheckDuplicates ==
    /\ pc = "duplicates"
    /\ mi <= Len(disorganized_photos)
    /\ pi <= Len(disorganized_photos[mi].val)
    /\ LET month  == disorganized_photos[mi].key
           photos == disorganized_photos[mi].val
           photo  == photos[pi]
           pool   == DictGet(organized_photos, month)
           o      == DuplicateOrganized(photo, pool)
           e      == DuplicateEarlier(photos, pi)
       IN  \E a1, a2 \in DuplicateAnswers :
             LET ask1   == o # 0
                 abort1 == ask1 /\ duplicate_found_exits(a1)
                 ask2   == ~abort1 /\ e # 0
                 abort2 == ask2 /\ duplicate_found_exits(a2)
                 p1 == IF ask1 THEN <<DuplicatePrompt(pool[o], photo, a1)>> ELSE <<>>
                 c1 == IF ask1 /\ ~abort1 THEN duplicate_found(pool[o], photo, a1) ELSE <<>>
                 p2 == IF ask2 THEN <<DuplicatePrompt(photos[e], photo, a2)>> ELSE <<>>
                 c2 == IF ask2 /\ ~abort2 THEN duplicate_found(photos[e], photo, a2) ELSE <<>>
             IN  /\ prompts' = prompts \o p1 \o p2
                 /\ commands' = commands \o c1 \o c2
                 /\ IF abort1 \/ abort2
                    THEN /\ pc' = "exit"                           \* sys.exit
                         /\ UNCHANGED <<unique_photos, pi>>
                    ELSE /\ unique_photos' =
                               IF ~ask1 /\ ~ask2                   \* not photo_is_duplicate
                               THEN SetDefaultAppend(unique_photos, month, photo)
                               ELSE unique_photos
                         /\ pi' = pi + 1
                         /\ pc' = pc
    /\ UNCHANGED <<fs, fs0, run_no, simulate_only, listing, dirs, disorganized_photos,
                   organized_photos, mi, simulacrum, ci, trace, arg, res>>

\* The photos of the month are exhausted
DuplicatesNextMonth ==
    /\ pc = "duplicates"
    /\ mi <= Len(disorganized_photos)
    /\ pi > Len(disorganized_photos[mi].val)
    /\ mi' = mi + 1
    /\ pi' = 1
    /\ UNCHANGED <<fs, fs0, pc, run_no, simulate_only, listing, dirs, disorganized_photos,
                   organized_photos, unique_photos, commands, simulacrum, ci,
                   prompts, trace, arg, res>>

\* A mutant of the merge: the lists are extended and left unsorted
MergedAndSorted_unsorted(unique, organized) ==
    [j \in 1..Len(unique) |->
        [key |-> unique[j].key,
         val |-> unique[j].val \o DictGet(organized, unique[j].key)]]

\* "merge and order lists": extend with the organized photos, then sort()
MergedAndSorted(unique, organized) ==
    [j \in 1..Len(unique) |->
        [key |-> unique[j].key,
         val |-> SortPhotos(unique[j].val \o DictGet(organized, unique[j].key))]]

\* The months are exhausted; the loop "for month in unique_photos" runs
MergeAndSort ==
    /\ pc = "duplicates"
    /\ mi > Len(disorganized_photos)
    /\ unique_photos' = MergedAndSorted(unique_photos, organized_photos)
    /\ pc' = "moves"
    /\ mi' = 1
    /\ UNCHANGED <<fs, fs0, run_no, simulate_only, listing, dirs, disorganized_photos,
                   organized_photos, pi, commands, simulacrum, ci, prompts, trace,
                   arg, res>>

\* A mutant of the loop over the moves: the commands of the month are put in
\* front of the plan instead of being appended to it
PrepareMoves_first ==
    /\ pc = "moves"
    /\ mi <= Len(unique_photos)
    /\ LET month  == unique_photos[mi].key
           photos == unique_photos[mi].val
       IN  commands' = MoveCommands(month, photos, Len(photos)) \o commands
    /\ mi' = mi + 1
    /\ UNCHANGED <<fs, fs0, pc, run_no, simulate_only, listing, dirs, disorganized_photos,
                   organized_photos, unique_photos, pi, simulacrum, ci, prompts,
                   trace, arg, res>>

\* One iteration of "for month, photos_for_month in unique_photos.items()"
PrepareMoves ==
    /\ pc = "moves"
    /\ mi <= Len(unique_photos)
    /\ LET month  == unique_photos[mi].key
           photos == unique_photos[mi].val
       IN  commands' = commands \o MoveCommands(month, photos, Len(photos))
    /\ mi' = mi + 1
    /\ UNCHANGED <<fs, fs0, pc, run_no, simulate_only, listing, dirs, disorganized_photos,
                   organized_photos, unique_photos, pi, simulacrum, ci, prompts,
                   trace, arg, res>>

\* prepare returns
PrepareDone ==
    /\ pc = "moves"
    /\ mi > Len(unique_photos)
    /\ pc' = "prepared"
    /\ UNCHANGED <<fs, fs0, run_no, simulate_only, listing, dirs, disorganized_photos,
                   organized_photos, unique_photos, mi, pi, commands, simulacrum, ci,
                   prompts, trace, arg, res>>

-----------------------------------------------------------------------------
(* Organizer.run after prepare; Organizer.simulate; Organizer.execute.     *)

Event(phase, i, ok) == [run |-> run_no, phase |-> phase, i |-> i, ok |-> ok]

\* "if len(self.commands) == 0: return", else simulate() starts
RunAfterPrepare ==
    /\ pc = "prepared"
    /\ IF Len(commands) = 0
       THEN /\ pc' = "done"                                        \* nothing_to_do
            /\ UNCHANGED <<simulacrum, ci>>
       ELSE /\ simulacrum' = create_simulacrum(fs)
            /\ ci' = 1
            /\ pc' = "simulate"
    /\ UNCHANGED <<fs, fs0, run_no, simulate_only, listing, dirs, disorganized_photos,
                   organized_photos, unique_photos, mi, pi, commands, prompts, trace,
                   arg, res>>

\* A mutant of simulate: the exception of a failing command is swallowed
AfterSimulate_swallowed(ok) == "simulate"

\* Where control goes after cmd.simulate(simulacrum): on, or out with the exception
AfterSimulate(ok) == IF ok THEN "simulate" ELSE "sim_failed"

\* One iteration of "for cmd in self.commands" in simulate
SimulateCommand ==
    /\ pc = "simulate"
    /\ ci <= Len(commands)
    /\ LET r == Simulate(commands[ci], simulacrum)
       IN  /\ trace' = Append(trace, Event("simulate", ci, r.ok))
           /\ simulacrum' = r.sim
           /\ pc' = AfterSimulate(r.ok)
           /\ ci' = IF pc' = "simulate" THEN ci + 1 ELSE ci
    /\ UNCHANGED <<fs, fs0, run_no, simulate_only, listing, dirs, disorganized_photos,
                   organized_photos, unique_photos, mi, pi, commands, prompts, arg, res>>

\* simulate returns; "if not simulate_only: self.execute()".  The argument
\* simulate_only is read here for the first time, so its value is drawn here.
SimulateSuccess ==
    /\ pc = "simulate"
    /\ ci > Len(commands)
    /\ \E so \in BOOLEAN :
          /\ simulate_only' = so
          /\ pc' = IF so THEN "done" ELSE "execute"
    /\ ci' = 1
    /\ UNCHANGED <<fs, fs0, run_no, listing, dirs, disorganized_photos, organized_photos,
                   unique_photos, mi, pi, commands, simulacrum, prompts, trace, arg, res>>

\* One iteration of "for cmd in self.commands" in execute
ExecuteCommand ==
    /\ pc = "execute"
    /\ ci <= Len(commands)
    /\ LET r == Execute(commands[ci], fs)
       IN  /\ trace' = Append(trace, Event("execute", ci, r.ok))
           /\ fs' = r.fs
           /\ IF r.ok THEN ci' = ci + 1 /\ pc' = pc
                      ELSE ci' = ci /\ pc' = "exec_failed"
    /\ UNCHANGED <<fs0, run_no, simulate_only, listing, dirs, disorganized_photos,
                   organized_photos, unique_photos, mi, pi, commands, simulacrum,
                   prompts, arg, res>>

\* execute returns
ExecuteSuccess ==
    /\ pc = "execute"
    /\ ci > Len(commands)
    /\ pc' = "done"
    /\ UNCHANGED <<fs, fs0, run_no, simulate_only, listing, dirs, disorganized_photos,
                   organized_photos, unique_photos, mi, pi, commands, simulacrum, ci,
                   prompts, trace, arg, res>>

\* The program has returned after applying its plan and is started again on the
\* same target; the histories start afresh
RunAgain ==
    /\ pc = "done"
    /\ run_no < MaxRuns
    /\ \E j \in 1..Len(trace) : trace[j].phase = "execute"
    /\ run_no' = run_no + 1
    /\ fs' = fs
    /\ fs0' = fs
    /\ pc' = "scan_root"
    /\ listing' = iterdir(fs, <<>>)
    /\ dirs' = {}
    /\ disorganized_photos' = <<>>
    /\ organized_photos' = <<>>
    /\ unique_photos' = <<>>
    /\ mi' = 1
    /\ pi' = 1
    /\ commands' = <<>>
    /\ simulacrum' = {}
    /\ ci' = 1
    /\ simulate_only' = FALSE
    /\ prompts' = <<>>
    /\ trace' = <<>>
    /\ UNCHANGED <<arg, res>>

Next ==
    \/ ScanRootChild
    \/ ScanRootDone
    \/ MonthStep
    \/ ScanMonthChild
    \/ ScanMonthDone
    \/ MonthsDone
    \/ CheckDuplicates
    \/ DuplicatesNextMonth
    \/ MergeAndSort
    \/ PrepareMoves
    \/ PrepareDone
    \/ RunAfterPrepare
    \/ SimulateCommand
    \/ SimulateSuccess
    \/ ExecuteCommand
    \/ ExecuteSuccess
    \/ RunAgain

Spec == Init /\ [][Next]_vars

-----------------------------------------------------------------------------
(* Properties of Organizer.run.                                            *)

\* a command has been executed against the real filesystem in this run
Executed == \E j \in 1..Len(trace) : trace[j].phase = "execute"

\* the simulation of a command has failed in this run
SimulationFailed == \E j \in 1..Len(trace) : trace[j].phase = "simulate" /\ ~trace[j].ok

\* C1: if the simulation of a command of the plan fails, no command is executed
\* against the real filesystem, before or after, and the filesystem is as the run
\* found it; a command is executed only after every command of the plan has been
\* simulated with success, and only when simulate_only is not set.
C1_ExecuteOnlyAfterFullSimulation ==
    /\ SimulationFailed => ~Executed /\ fs = fs0
    /\ Executed =>
          /\ ~simulate_only
          /\ \A i \in 1..Len(commands) :
                \E j \in 1..Len(trace) : trace[j] = Event("simulate", i, TRUE)
          /\ \A j, h \in 1..Len(trace) :
                (trace[j].phase = "simulate" /\ trace[h].phase = "execute") => j < h

\* a run whose simulation failed at a command after an earlier command passed
C1_Witness ==
    /\ pc = "sim_failed"
    /\ Len(trace) >= 2
    /\ ~trace[Len(trace)].ok

\* the decision provider has answered abort in this run
Aborted == \E j \in 1..Len(prompts) : prompts[j].answer = "a"

AbortedRunState ==
    Aborted =>
        /\ pc = "exit"
        /\ prompts[Len(prompts)].answer = "a"
        /\ \A j \in 1..(Len(prompts) - 1) : prompts[j].answer # "a"
        /\ trace = <<>>
        /\ simulacrum = {}
        /\ fs = fs0

\* C2: once the decision provider has answered abort, to either prompt, the run is
\* over: the abort is the last prompt, neither simulate nor execute has been or
\* is entered, the filesystem is unchanged, and from then on no command is
\* generated and no prompt is made.
C2_AbortTerminatesRun ==
    /\ []AbortedRunState
    /\ [][Aborted => (pc' = "exit" /\ commands' = commands /\ prompts' = prompts
                        /\ fs' = fs /\ trace' = trace)]_vars

\* an abort at a duplicate prompt, after commands have been generated
C2_Witness ==
    /\ pc = "exit"
    /\ commands # <<>>
    /\ prompts # <<>>
    /\ prompts[Len(prompts)].kind = "duplicate"
    /\ prompts[Len(prompts)].answer = "a"

-----------------------------------------------------------------------------
(* Properties of the plan.                                                 *)

\* prepare has returned: self.commands is the finished plan
PlanFinished == pc \in {"prepared", "simulate", "sim_failed", "execute", "exec_failed", "done"}

DuplicatePrompts == {j \in 1..Len(prompts) : prompts[j].kind = "duplicate"}

\* C3: in every duplicate pair put to the decision provider, the record passed as
\* the original sorts before the candidate under Photo.__lt__, and every Remove
\* command targets the later-sorted record of a pair answered delete.
C3_OriginalIsEarlierSorted ==
    /\ \A j \in DuplicatePrompts : PhotoLess(prompts[j].original, prompts[j].duplicate)
    /\ \A i \in 1..Len(commands) :
          commands[i].op = "rm" =>
              \E j \in DuplicatePrompts :
                  /\ prompts[j].answer = "d"
                  /\ PhotoLess(prompts[j].original, prompts[j].duplicate)
                  /\ commands[i].target = prompts[j].duplicate.path

\* C4: when the decision provider has answered keep for a duplicate candidate, the
\* finished plan has no command that names the candidate's path, and the
\* candidate is in no list of unique_photos.
C4_KeptCandidateUntouched ==
    PlanFinished =>
        \A j \in DuplicatePrompts :
            prompts[j].answer = "k" =>
                /\ \A i \in 1..Len(commands) :
                      prompts[j].duplicate.path \notin CmdPaths(commands[i])
                /\ \A m \in 1..Len(unique_photos) :
                      \A h \in 1..Len(unique_photos[m].val) :
                          unique_photos[m].val[h].path # prompts[j].duplicate.path

\* the photo files found in directory d of filesystem f, as Photo makes them, sorted
RECURSIVE PhotosOf(_, _)
PhotosOf(f, paths) ==
    IF paths = {} THEN <<>>
    ELSE LET p == CHOOSE q \in paths : TRUE
         IN  InsertSorted(Photo(p, f[p]), PhotosOf(f, paths \ {p}))

\* the entries lying directly in directory d of filesystem f
EntriesIn(f, d) == {p \in DOMAIN f : Len(p) = Len(d) + 1 /\ SubSeq(p, 1, Len(d)) = d}

SortedPhotosIn(f, d) == PhotosOf(f, {p \in EntriesIn(f, d) : IsPhotoFile(f, p)})

\* The target is fully organized: no photo file lies directly under it, no two
\* photo files of a month directory hold the same content, and every photo file
\* of a month directory is at the destination computed for it
FullyOrganized(f) ==
    /\ \A p \in EntriesIn(f, <<>>) : ~IsPhotoFile(f, p)
    /\ \A d \in EntriesIn(f, <<>>) :
          (f[d].kind = "dir" /\ Basename(d).k = "month") =>
              LET photos == SortedPhotosIn(f, d)
              IN  /\ \A k \in 1..Len(photos) : Dest(Basename(d).mo, photos, k) = photos[k].path
                  /\ \A k, h \in 1..Len(photos) :
                        k # h => ~is_duplicate_of(photos[k], photos[h])

Merged == pc = "moves" \/ PlanFinished

MoveIndexes == {i \in 1..Len(commands) : commands[i].op = "mv"}

\* the records of the merged lists
MergedRecords ==
    UNION {{unique_photos[m].val[k] : k \in 1..Len(unique_photos[m].val)}
              : m \in 1..Len(unique_photos)}

\* C6: in a finished plan the records of a month's merged sorted list have
\* pairwise distinct destinations, no two Move commands share a destination, and
\* no Move destination is the path of a merged record that no Move takes away.
C6_DestinationsDistinct ==
    PlanFinished =>
        /\ \A m \in 1..Len(unique_photos) :
              LET month  == unique_photos[m].key
                  photos == unique_photos[m].val
              IN  \A k, h \in 1..Len(photos) :
                      k # h => Dest(month, photos, k) # Dest(month, photos, h)
        /\ \A i, j \in MoveIndexes : i # j => commands[i].dest # commands[j].dest
        /\ \A i \in MoveIndexes :
              \A r \in MergedRecords :
                  (\A j \in MoveIndexes : commands[j].source # r.path)
                      => commands[i].dest # r.path

\* a finished plan for a month with three records, two of them of the same second,
\* one of which stays where it is while two are moved
C6_Witness ==
    /\ PlanFinished
    /\ Cardinality(MoveIndexes) >= 2
    /\ \E m \in 1..Len(unique_photos) :
          LET photos == unique_photos[m].val
          IN  /\ Len(photos) >= 3
              /\ \E k \in 2..Len(photos) :
                    isoformat(photos[k].datetime) = isoformat(photos[k - 1].datetime)
              /\ \E k \in 1..Len(photos) :
                    \A j \in MoveIndexes : commands[j].source # photos[k].path

\* C7: in every merged sorted list, a record gets sequence number 1 when it is the
\* first of the list or its formatted timestamp differs from its predecessor's,
\* and its predecessor's number plus one when the formatted timestamps are equal.
C7_SequenceNumbers ==
    Merged =>
        \A m \in 1..Len(unique_photos) :
            LET photos == unique_photos[m].val
                n(k)   == Numbering(photos, k).n
                f(k)   == isoformat(photos[k].datetime)
            IN  \A k \in 1..Len(photos) :
                    IF k = 1 THEN n(k) = 1
                    ELSE IF f(k) # f(k - 1) THEN n(k) = 1
                    ELSE n(k) = n(k - 1) + 1

\* the organized photos of the month all have the capture time of x and carry the
\* names of that second with the sequence numbers 1..Len(pool)
NamedInSequence(month, pool, x) ==
    /\ pool # <<>>
    /\ \A h \in 1..Len(pool) : pool[h].datetime = x.datetime
    /\ \A n \in 1..Len(pool) :
          \E h \in 1..Len(pool) :
              /\ Parent(pool[h].path) = MonthDir(month)
              /\ Basename(pool[h].path).k = "org"
              /\ Basename(pool[h].path).fmt = isoformat(x.datetime)
              /\ Basename(pool[h].path).n = n

\* C8: when the only disorganized record of a month has the capture time of the
\* records of the month directory, which carry the names of that second numbered
\* from 001 on, and is a duplicate of none of them, the finished plan has no
\* MakeDirectory for the month, no Move of an organized record, no duplicate prompt
\* for the record, and exactly one command for it: the Move to the next number.
C8_NewRecordTakesNextNumber ==
    PlanFinished =>
        \A m \in 1..Len(disorganized_photos) :
            LET month == disorganized_photos[m].key
                x     == disorganized_photos[m].val[1]
                pool  == DictGet(organized_photos, month)
                next  == MonthDir(month) \o
                           <<OrgName(isoformat(x.datetime), Len(pool) + 1,
                                     Suffix(Basename(x.path)))>>
            IN  ( /\ Len(disorganized_photos[m].val) = 1
                  /\ NamedInSequence(month, pool, x)
                  /\ \A h \in 1..Len(pool) : ~is_duplicate_of(x, pool[h]) )
                =>
                ( /\ \A i \in 1..Len(commands) :
                        /\ commands[i] # MakeDirectory(MonthDir(month))
                        /\ commands[i].op = "mv" =>
                              \A h \in 1..Len(pool) : commands[i].source # pool[h].path
                  /\ \A j \in DuplicatePrompts : prompts[j].duplicate.path # x.path
                  /\ Cardinality({i \in 1..Len(commands) : x.path \in CmdPaths(commands[i])}) = 1
                  /\ \E i \in 1..Len(commands) : commands[i] = Move(x.path, next) )

\* the records prepare holds in the lists of a dict
RecordsOf(d) == UNION {{d[m].val[k] : k \in 1..Len(d[m].val)} : m \in 1..Len(d)}

\* the calls of datetime_uncertain for the photo at path
DatetimePromptsFor(path) ==
    {j \in 1..Len(prompts) : prompts[j].kind = "datetime" /\ prompts[j].path = path}

\* C9: every record that prepare holds in disorganized_photos, organized_photos or
\* unique_photos, and whose datetime_src as constructed is not "exif", has been
\* put to datetime_uncertain exactly once; no photo is put to it twice.
C9_UncertainOfferedOnce ==
    /\ \A r \in RecordsOf(disorganized_photos) \cup RecordsOf(organized_photos)
                  \cup RecordsOf(unique_photos) :
          Photo(r.path, fs0[r.path]).datetime_src # "exif"
              => Cardinality(DatetimePromptsFor(r.path)) = 1
    /\ \A j, h \in 1..Len(prompts) :
          (j # h /\ prompts[j].kind = "datetime" /\ prompts[h].kind = "datetime")
              => prompts[j].path # prompts[h].path

\* duplicate detection has started with an uncertain record in the organized pool
\* and an uncertain one among the disorganized, each offered before
C9_Witness ==
    /\ pc = "duplicates"
    /\ \E r \in RecordsOf(disorganized_photos) :
          Photo(r.path, fs0[r.path]).datetime_src = "mtime"
    /\ \E r \in RecordsOf(organized_photos) :
          Photo(r.path, fs0[r.path]).datetime_src = "filename"
    /\ Cardinality({j \in 1..Len(prompts) : prompts[j].kind = "datetime"}) >= 2

-----------------------------------------------------------------------------
(* Photo.__init__ on its own: the inputs of the resolution are drawn, then *)
(* the constructor runs.                                                   *)

TagChoices == {Absent, Bad, Spelt(Second(1, 0)), Spelt(Second(1, 1))}

PhotoInputs ==
    [stem23    : BOOLEAN,
     stemParse : {Bad, Spelt(Second(0, 0)), Spelt(Second(1, 0))},
     isImage   : BOOLEAN,
     tags      : [original : TagChoices, digitized : TagChoices, generic : TagChoices],
     mtime     : {dt(1, 0, 1), dt(2, 0, 0)}]

InitPhoto ==
    /\ arg \in PhotoInputs
    /\ res = <<>>
    /\ pc = "construct"
    /\ fs = <<>>
    /\ fs0 = <<>>
    /\ run_no = 1
    /\ simulate_only = FALSE
    /\ listing = {}
    /\ dirs = {}
    /\ disorganized_photos = <<>>
    /\ organized_photos = <<>>
    /\ unique_photos = <<>>
    /\ mi = 1
    /\ pi = 1
    /\ commands = <<>>
    /\ simulacrum = {}
    /\ ci = 1
    /\ prompts = <<>>
    /\ trace = <<>>

\* Photo(path) for a file with the drawn properties
Construct ==
    /\ pc = "construct"
    /\ res' = ResolveDatetime(arg.stem23, arg.stemParse, arg.isImage, arg.tags, arg.mtime)
    /\ pc' = "constructed"
    /\ UNCHANGED <<fs, fs0, run_no, simulate_only, listing, dirs, disorganized_photos,
                   organized_photos, unique_photos, mi, pi, commands, simulacrum, ci,
                   prompts, trace, arg>>

SpecPhoto == InitPhoto /\ [][Construct]_vars

\* C10: the constructed photo has source "exif" exactly when the file is an image
\* and the first present of the tags original, digitized, generic parses, and then
\* the datetime that tag spells; otherwise source "filename" exactly when the stem
\* has 23 characters and its first 19 parse, and then the datetime they spell;
\* otherwise source "mtime" and the file's modification time.
C10_ResolutionOrder ==
    pc = "constructed" =>
        LET t     == arg.tags
            first == IF t.original.st # "absent" THEN t.original
                     ELSE IF t.digitized.st # "absent" THEN t.digitized
                     ELSE t.generic
            meta  == arg.isImage /\ first.st = "ok"
            name  == arg.stem23 /\ arg.stemParse.st = "ok"
        IN  /\ (res.datetime_src = "exif") <=> meta
            /\ (res.datetime_src = "filename") <=> (~meta /\ name)
            /\ (res.datetime_src = "mtime") <=> (~meta /\ ~name)
            /\ meta => res.datetime = ParsedSecond(first.f)
            /\ (~meta /\ name) => res.datetime = ParsedSecond(arg.stemParse.f)
            /\ (~meta /\ ~name) => res.datetime = arg.mtime

\* an image whose first present tag does not parse while a later tag would: the
\* datetime of the filename stands
C10_Witness ==
    /\ pc = "constructed"
    /\ arg.isImage
    /\ arg.tags.original = Absent
    /\ arg.tags.digitized = Bad
    /\ arg.tags.generic.st = "ok"
    /\ arg.stem23
    /\ arg.stemParse.st = "ok"
    /\ res.datetime_src = "filename"

-----------------------------------------------------------------------------
(* Photo.__lt__ on its own: three records are drawn, then compared.        *)

\* no run of the Organizer is in progress
NoRun ==
    /\ fs = <<>>
    /\ fs0 = <<>>
    /\ run_no = 1
    /\ simulate_only = FALSE
    /\ listing = {}
    /\ dirs = {}
    /\ disorganized_photos = <<>>
    /\ organized_photos = <<>>
    /\ unique_photos = <<>>
    /\ mi = 1
    /\ pi = 1
    /\ commands = <<>>
    /\ simulacrum = {}
    /\ ci = 1
    /\ prompts = <<>>
    /\ trace = <<>>

\* where the compared records lie: directly under the target, in two month
\* directories (one name occurs in both), and one level further down
OrderPaths ==
    {<<RawName(1, ".jpg")>>,
     <<RawName(2, ".jpg")>>,
     MonthDir(1) \o <<OrgName(Second(1, 0), 1, ".jpg")>>,
     MonthDir(1) \o <<OrgName(Second(1, 0), 2, ".jpg")>>,
     MonthDir(0) \o <<OrgName(Second(1, 0), 1, ".jpg")>>,
     MonthDir(0) \o <<RawName(1, ".jpg")>>}

OrderDatetimes == {dt(1, 0, 0), dt(1, 0, 1), dt(1, 1, 0)}

OrderRecords ==
    {[path |-> p, size |-> 1, hash |-> 1, datetime |-> d, datetime_src |-> "exif"] :
        p \in OrderPaths, d \in OrderDatetimes}

InitOrder ==
    /\ arg \in [a : OrderRecords, b : OrderRecords, c : OrderRecords]
    /\ res = <<>>
    /\ pc = "compare"
    /\ NoRun

\* a < b, b < a, ... evaluated with Photo.__lt__
CompareRecords ==
    /\ pc = "compare"
    /\ res' = [aa |-> PhotoLess(arg.a, arg.a),
               ab |-> PhotoLess(arg.a, arg.b),
               ba |-> PhotoLess(arg.b, arg.a),
               bc |-> PhotoLess(arg.b, arg.c),
               ac |-> PhotoLess(arg.a, arg.c)]
    /\ pc' = "compared"
    /\ UNCHANGED <<fs, fs0, run_no, simulate_only, listing, dirs, disorganized_photos,
                   organized_photos, unique_photos, mi, pi, commands, simulacrum, ci,
                   prompts, trace, arg>>

SpecOrder == InitOrder /\ [][CompareRecords]_vars

\* C11: Photo.__lt__ is irreflexive and transitive, for two records with distinct
\* paths exactly one of a < b, b < a holds, and records with equal capture time
\* are ordered by descending directory depth, then by ascending filename.
C11_StrictTotalOrder ==
    pc = "compared" =>
        /\ ~res.aa
        /\ (res.ab /\ res.bc) => res.ac
        /\ arg.a.path # arg.b.path => (res.ab # res.ba)
        /\ arg.a.datetime = arg.b.datetime =>
              /\ Depth(arg.a.path) > Depth(arg.b.path) => res.ab
              /\ (Depth(arg.a.path) = Depth(arg.b.path)
                    /\ NameLess(Basename(arg.a.path), Basename(arg.b.path))) => res.ab

-----------------------------------------------------------------------------
(* Organizer.prepare twice on the same directory contents: the second pass *)
(* starts from the filesystem of the first, which prepare does not change, *)
(* and its listings come in an order of their own.                         *)

\* the answers of a pass are those of a provider with one fixed answer for each
\* of its two requests
FixedAnswers(ps) ==
    \A j, h \in 1..Len(ps) : ps[j].kind = ps[h].kind => ps[j].answer = ps[h].answer

\* prepare has returned; the plan and the answers are kept in res, and a new
\* Organizer prepares on the same target
PrepareAgain ==
    /\ pc = "prepared"
    /\ res = <<>>
    /\ FixedAnswers(prompts)
    /\ res' = [commands |-> commands, prompts |-> prompts]
    /\ pc' = "scan_root"
    /\ listing' = iterdir(fs, <<>>)
    /\ dirs' = {}
    /\ disorganized_photos' = <<>>
    /\ organized_photos' = <<>>
    /\ unique_photos' = <<>>
    /\ mi' = 1
    /\ pi' = 1
    /\ commands' = <<>>
    /\ prompts' = <<>>
    /\ UNCHANGED <<fs, fs0, run_no, simulate_only, simulacrum, ci, trace, arg>>

NextPlan ==
    \/ ScanRootChild
    \/ ScanRootDone
    \/ MonthStep
    \/ ScanMonthChild
    \/ ScanMonthDone
    \/ MonthsDone
    \/ CheckDuplicates
    \/ DuplicatesNextMonth
    \/ MergeAndSort
    \/ PrepareMoves
    \/ PrepareDone
    \/ PrepareAgain

SpecPlan == Init /\ [][NextPlan]_vars

\* the commands of a plan, without their order
CommandSet(cs) == {cs[i] : i \in 1..Len(cs)}

\* both passes have returned
PreparedTwice == pc = "prepared" /\ res # <<>>

\* C12: two passes of prepare over the same directory contents, with a provider
\* that gives the same fixed answers in both, emit the same commands (the same
\* Remove targets, the same Move sources and destinations), whatever the orders
\* in which the listings enumerate the files.
C12_PlanIndependentOfListing ==
    (PreparedTwice /\ FixedAnswers(res.prompts \o prompts))
        => CommandSet(commands) = CommandSet(res.commands)

-----------------------------------------------------------------------------
(* Properties of the plan applied to the filesystem.                       *)

\* every record of the merged lists is, in filesystem f, a file at the destination
\* computed for it, with the attributes it had at its path when the run started
AtDestinations(f) ==
    \A m \in 1..Len(unique_photos) :
        LET month  == unique_photos[m].key
            photos == unique_photos[m].val
        IN  \A k \in 1..Len(photos) :
                /\ is_file(f, Dest(month, photos, k))
                /\ f[Dest(month, photos, k)] = fs0[photos[k].path]

\* C13: the plan that prepare emits, applied in order to the filesystem it was
\* planned from, passes the simulation, every command executes without failure,
\* and after the last command every record of the merged lists is at its
\* computed destination.
C13_PlanAchievesLayout ==
    /\ pc # "sim_failed"
    /\ pc # "exec_failed"
    /\ (pc = "done" /\ Executed) => AtDestinations(fs)

-----------------------------------------------------------------------------
(* Organizer.run on a filesystem that something outside the program also   *)
(* modifies while execute is under way.                                    *)

\* at most this many modifications from outside happen during a run
MaxExternal == 1

\* the modifications from outside that the history records
ExternalEvents == {j \in 1..Len(trace) : trace[j].phase = "external"}

\* the paths named by the commands that execute has yet to run
PendingPaths == UNION {CmdPaths(commands[i]) : i \in ci..Len(commands)}

\* what a modification from outside does to path p: an existing entry is removed
\* with everything under it, a missing one is created as a file
Modified(f, p) ==
    IF p \in DOMAIN f
    THEN [q \in {r \in DOMAIN f : ~Under(r, p)} |-> f[q]]
    ELSE [q \in DOMAIN f \cup {p} |->
            IF q = p THEN FileEntry([size |-> 1, hash |-> 1], Absent, dt(1, 0, 1)) ELSE f[q]]

\* Between two commands of execute, something outside the program removes or
\* creates a path that a pending command names
ExternalModification ==
    /\ pc = "execute"
    /\ ci <= Len(commands)
    /\ Cardinality(ExternalEvents) < MaxExternal
    /\ \E p \in PendingPaths :
          /\ fs' = Modified(fs, p)
          /\ trace' = Append(trace, [run |-> run_no, phase |-> "external", i |-> ci,
                                     ok |-> TRUE, path |-> p])
    /\ UNCHANGED <<fs0, pc, run_no, simulate_only, listing, dirs, disorganized_photos,
                   organized_photos, unique_photos, mi, pi, commands, simulacrum, ci,
                   prompts, arg, res>>

NextExternal ==
    \/ ScanRootChild
    \/ ScanRootDone
    \/ MonthStep
    \/ ScanMonthChild
    \/ ScanMonthDone
    \/ MonthsDone
    \/ CheckDuplicates
    \/ DuplicatesNextMonth
    \/ MergeAndSort
    \/ PrepareMoves
    \/ PrepareDone
    \/ RunAfterPrepare
    \/ SimulateCommand
    \/ SimulateSuccess
    \/ ExecuteCommand
    \/ ExecuteSuccess
    \/ ExternalModification

\* The run starts on files that all carry an EXIF capture time, so that prepare
\* asks about duplicates only
InitExternal ==
    /\ \E S \in SUBSET CandidateSet, D \in SUBSET MonthDirs :
          /\ Cardinality(S) <= MaxFiles
          /\ \A p \in S : Len(p) = 2 => Parent(p) \in D
          /\ \E at \in [S -> {e \in AllEntries : e.tags.original # Absent}] :
                /\ FirstHoldsFirst(S, at)
                /\ fs = [p \in S \cup D |-> IF p \in D THEN DirEntry ELSE at[p]]
    /\ Started(fs)
    /\ run_no = 1
    /\ simulate_only = FALSE
    /\ prompts = <<>>
    /\ trace = <<>>
    /\ arg = <<>>
    /\ res = <<>>

SpecExternal == InitExternal /\ [][NextExternal]_vars

\* the filesystem after the first k events of the history, from the filesystem
\* the run started on: each successful execute applied, each modification from
\* outside applied, nothing else
RECURSIVE Replayed(_)
Replayed(k) ==
    IF k = 0 THEN fs0
    ELSE LET before == Replayed(k - 1)
             ev     == trace[k]
         IN  IF ev.phase = "external" THEN Modified(before, ev.path)
             ELSE IF ev.phase = "execute" /\ ev.ok THEN Execute(commands[ev.i], before).fs
             ELSE before

\* the events of execute in the history
ExecuteEvents == {j \in 1..Len(trace) : trace[j].phase = "execute"}

\* the state of a run in which a command failed in execute
FailedRunState ==
    pc = "exec_failed" =>
        /\ trace[Len(trace)].phase = "execute"
        /\ trace[Len(trace)].i = ci
        /\ ~trace[Len(trace)].ok
        /\ \A i \in 1..(ci - 1) :
              \E j \in ExecuteEvents : trace[j].i = i /\ trace[j].ok
        /\ \A j \in ExecuteEvents : trace[j].i <= ci
        /\ \A j \in ExecuteEvents : j < Len(trace) => trace[j].ok
        /\ fs = Replayed(Len(trace))

\* C14: when a command fails in execute the run stops there: every command before
\* it has been executed and its effect is still applied, the failing command
\* leaves the filesystem as it found it, no command after it is executed, and
\* the run takes no further step.
C14_ExecutionStopsAtFailure ==
    /\ []FailedRunState
    /\ [][(pc' = "exec_failed" /\ pc # "exec_failed") => fs' = fs]_vars
    /\ [][pc # "exec_failed"]_vars

\* a command fails in execute after an earlier command of the plan was executed,
\* and the filesystem is no longer the one the run started on
C14_Witness ==
    /\ pc = "exec_failed"
    /\ ci >= 2
    /\ fs # fs0

-----------------------------------------------------------------------------
(* Organizer.simulate and Organizer.execute on their own: a filesystem and *)
(* a list of commands are drawn, then run continues after prepare.         *)

\* Organizer.commands holds at most this many commands
MaxCommands == 2

\* the paths the drawn filesystems and commands are made of: two files directly
\* under the target, a name without suffix, a file inside that directory
PathA  == <<RawName(1, ".jpg")>>
PathB  == <<RawName(2, ".jpg")>>
PathM  == MonthDir(1)
PathMX == MonthDir(1) \o <<OrgName(Second(1, 0), 1, ".jpg")>>

PlainFile == FileEntry([size |-> 1, hash |-> 1], Absent, dt(1, 0, 1))

\* the filesystems: each file is there or not, the name without suffix is
\* missing, a directory or a regular file
DrawnFilesystems ==
    {f \in UNION {[S -> {DirEntry, PlainFile}] : S \in SUBSET {PathA, PathB, PathM, PathMX}} :
        /\ \A p \in DOMAIN f : (f[p] = DirEntry) => p = PathM
        /\ PathMX \in DOMAIN f => (PathM \in DOMAIN f /\ f[PathM] = DirEntry)}

CommandChoices ==
    {MakeDirectory(PathM)}
        \cup {Remove(p) : p \in {PathA, PathM, PathMX}}
        \cup {Move(s, d) : s, d \in {PathA, PathB, PathMX}}

DrawnCommands == UNION {[1..n -> CommandChoices] : n \in 0..MaxCommands}

InitCommands ==
    /\ fs \in DrawnFilesystems
    /\ fs0 = fs
    /\ commands \in DrawnCommands
    /\ pc = "prepared"
    /\ run_no = 1
    /\ simulate_only = FALSE
    /\ listing = {}
    /\ dirs = {}
    /\ disorganized_photos = <<>>
    /\ organized_photos = <<>>
    /\ unique_photos = <<>>
    /\ mi = 1
    /\ pi = 1
    /\ simulacrum = {}
    /\ ci = 1
    /\ prompts = <<>>
    /\ trace = <<>>
    /\ arg = <<>>
    /\ res = <<>>

NextCommands ==
    \/ RunAfterPrepare
    \/ SimulateCommand
    \/ SimulateSuccess
    \/ ExecuteCommand
    \/ ExecuteSuccess

SpecCommands == InitCommands /\ [][NextCommands]_vars

\* simulate is about to run the command at ci, and that command is a cmd_op
Simulating(cmd_op) == pc = "simulate" /\ ci <= Len(commands) /\ commands[ci].op = cmd_op

\* the simulation of a command with operation cmd_op has failed
SimulationFailedAt(cmd_op) ==
    \E j \in 1..Len(trace) :
        trace[j].phase = "simulate" /\ ~trace[j].ok /\ commands[trace[j].i].op = cmd_op

\* C15: the simulation of a Move fails and leaves the simulacrum unchanged when
\* the source is not in the simulacrum or the destination is in it, and otherwise
\* takes the source out and puts the destination in; once the simulation of a
\* Move has failed the run has stopped in simulate, no command has been executed,
\* the filesystem is untouched, and the run takes no further step.
C15_MoveSimulate ==
    /\ [][Simulating("mv") =>
            LET cmd == commands[ci]
            IN  IF cmd.source \notin simulacrum \/ cmd.dest \in simulacrum
                THEN simulacrum' = simulacrum /\ pc' = "sim_failed"
                ELSE /\ simulacrum' = (simulacrum \ {cmd.source}) \cup {cmd.dest}
                     /\ pc' = "simulate"]_vars
    /\ [](SimulationFailedAt("mv") => (pc = "sim_failed" /\ ~Executed /\ fs = fs0))
    /\ [][SimulationFailedAt("mv") => FALSE]_vars

\* the simulation has failed at a Move whose source is in the simulacrum and whose
\* destination is in it too, after an earlier command passed
C15_Witness ==
    /\ pc = "sim_failed"
    /\ ci >= 2
    /\ commands[ci].op = "mv"
    /\ commands[ci].source \in simulacrum
    /\ commands[ci].dest \in simulacrum
    /\ commands[ci].source # commands[ci].dest

\* C16: the simulation of a Remove fails and leaves the simulacrum unchanged when
\* the target is not in the simulacrum or its name has no suffix, and otherwise
\* takes exactly the target out of the simulacrum.
C16_RemoveSimulate ==
    [][Simulating("rm") =>
          LET cmd == commands[ci]
          IN  IF cmd.target \notin simulacrum \/ Suffix(Basename(cmd.target)) = ""
              THEN simulacrum' = simulacrum /\ pc' = "sim_failed"
              ELSE /\ simulacrum' = simulacrum \ {cmd.target}
                   /\ pc' = "simulate"]_vars

\* the simulation has failed at a Remove whose target is in the simulacrum, is a
\* regular file, and has a name without suffix
C16_Witness ==
    /\ pc = "sim_failed"
    /\ commands[ci].op = "rm"
    /\ commands[ci].target \in simulacrum
    /\ is_file(fs, commands[ci].target)
    /\ Suffix(Basename(commands[ci].target)) = ""

-----------------------------------------------------------------------------
(* Properties of duplicate detection.                                      *)

RemoveIndexes == {i \in 1..Len(commands) : commands[i].op = "rm"}

\* the organized pool of the month the record x was filed under
PoolOf(x) ==
    IF MonthOf(x.datetime) \in DictKeys(organized_photos)
    THEN DictGet(organized_photos, MonthOf(x.datetime))
    ELSE <<>>

\* C17: a disorganized record is put to duplicate_found at most once; when it is a
\* duplicate of a record of its month's organized pool the original shown is a
\* record of that pool; and no two Remove commands of the plan have the same target.
C17_OneDecisionPerRecord ==
    /\ \A j, h \in DuplicatePrompts :
          j # h => prompts[j].duplicate.path # prompts[h].duplicate.path
    /\ \A j \in DuplicatePrompts :
          LET x    == prompts[j].duplicate
              pool == PoolOf(x)
          IN  (\E k \in 1..Len(pool) : is_duplicate_of(x, pool[k]))
                  => \E k \in 1..Len(pool) : prompts[j].original = pool[k]
    /\ \A i, j \in RemoveIndexes : i # j => commands[i].target # commands[j].target

-----------------------------------------------------------------------------
(* Properties of the merged lists and the Move commands.                   *)

\* the records of list that duplicate detection let through: those never put to
\* duplicate_found as the duplicate
RECURSIVE Survivors(_)
Survivors(list) ==
    IF list = <<>> THEN <<>>
    ELSE LET before == Survivors(SubSeq(list, 1, Len(list) - 1))
             x      == list[Len(list)]
         IN  IF \E j \in DuplicatePrompts : prompts[j].duplicate.path = x.path
             THEN before
             ELSE Append(before, x)

\* the merged sorted list of the m-th month of disorganized_photos
MergedList(m) ==
    SortPhotos(Survivors(disorganized_photos[m].val)
                  \o DictGet(organized_photos, disorganized_photos[m].key))

\* the Move commands of the plan that take path away
MovesFrom(path) == {i \in MoveIndexes : commands[i].source = path}

\* C18: in a finished plan, for every month of disorganized_photos, also one in
\* which no disorganized record survived duplicate detection, each record of the
\* month's merged sorted list whose destination differs from its path has
\* exactly one Move, from its path to its destination, and each record whose
\* destination is its path has none.
C18_MovesForEveryMonth ==
    PlanFinished =>
        \A m \in 1..Len(disorganized_photos) :
            LET month  == disorganized_photos[m].key
                photos == MergedList(m)
            IN  \A k \in 1..Len(photos) :
                    LET dest == Dest(month, photos, k)
                    IN  IF dest # photos[k].path
                        THEN /\ Cardinality(MovesFrom(photos[k].path)) = 1
                             /\ \E i \in MoveIndexes : commands[i] = Move(photos[k].path, dest)
                        ELSE MovesFrom(photos[k].path) = {}

-----------------------------------------------------------------------------
(* Organizer.run on a target that holds a symbolic link to a photo file.   *)

\* the link, directly under the target, and the files it may point at: a file
\* in the parent of the target, a file directly under the target, a file in a
\* month directory
LinkPath    == <<RawName(2, ".jpg")>>
OutsideFile == <<UpName, RawName(3, ".jpg")>>
RootFile    == <<RawName(1, ".jpg")>>
MonthFile   == MonthDir(1) \o <<OrgName(Second(1, 0), 1, ".jpg")>>

\* the entry of a symbolic link to the file with entry e at path
LinkEntry(e, path) ==
    [kind |-> "file", size |-> e.size, hash |-> e.hash, isImage |-> e.isImage,
     tags |-> e.tags, mtime |-> e.mtime, to |-> path]

InitLinks ==
    /\ \E S \in SUBSET {OutsideFile, RootFile, MonthFile}, D \in SUBSET MonthDirs :
          /\ S # {}
          /\ MonthFile \in S => MonthDir(1) \in D
          /\ \E at \in [S -> AllEntries], target \in S :
                fs = [p \in S \cup D \cup {LinkPath} |->
                        IF p \in D THEN DirEntry
                        ELSE IF p = LinkPath THEN LinkEntry(at[target], target)
                        ELSE at[p]]
    /\ Started(fs)
    /\ run_no = 1
    /\ simulate_only = FALSE
    /\ prompts = <<>>
    /\ trace = <<>>
    /\ arg = <<>>
    /\ res = <<>>

\* one run of the program, with nothing else touching the filesystem
NextRun ==
    \/ ScanRootChild
    \/ ScanRootDone
    \/ MonthStep
    \/ ScanMonthChild
    \/ ScanMonthDone
    \/ MonthsDone
    \/ CheckDuplicates
    \/ DuplicatesNextMonth
    \/ MergeAndSort
    \/ PrepareMoves
    \/ PrepareDone
    \/ RunAfterPrepare
    \/ SimulateCommand
    \/ SimulateSuccess
    \/ ExecuteCommand
    \/ ExecuteSuccess

SpecLinks == InitLinks /\ [][NextRun]_vars

\* the simulacrum after the first k commands of the plan have been simulated
RECURSIVE SimulatedAfter(_)
SimulatedAfter(k) ==
    IF k = 0 THEN create_simulacrum(fs0)
    ELSE Simulate(commands[k], SimulatedAfter(k - 1)).sim

\* the filesystem after the first k commands of the plan have been executed on
\* the filesystem the run started on
RECURSIVE ExecutedAfter(_)
ExecutedAfter(k) ==
    IF k = 0 THEN fs0
    ELSE Execute(commands[k], ExecutedAfter(k - 1)).fs

SimulatedOk(k) == Simulate(commands[k], SimulatedAfter(k - 1)).ok
ExecutedOk(k)  == Execute(commands[k], ExecutedAfter(k - 1)).ok

\* C19: for a finished plan replayed on the filesystem it was planned from, every
\* command up to and including the first that fails succeeds in execute exactly
\* when it succeeds in simulate, and after each command that succeeded the paths
\* found under the target are the paths of the simulacrum.
C19_ExecuteAgreesWithSimulate ==
    PlanFinished =>
        \A k \in 1..Len(commands) :
            (\A j \in 1..(k - 1) : SimulatedOk(j) /\ ExecutedOk(j)) =>
                /\ SimulatedOk(k) = ExecutedOk(k)
                /\ (SimulatedOk(k) /\ ExecutedOk(k)) =>
                      create_simulacrum(ExecutedAfter(k)) = SimulatedAfter(k)

\* the records prepare made in this run
AllRecords == RecordsOf(disorganized_photos) \cup RecordsOf(organized_photos)

\* the targets of the Remove commands of the plan
RemoveTargets == {commands[i].target : i \in RemoveIndexes}

\* the records put to duplicate_found as the duplicate and answered delete
DeletedRecords ==
    {prompts[j].duplicate : j \in {h \in DuplicatePrompts : prompts[h].answer = "d"}}

\* C20: in a finished plan every Remove targets a record for which another record
\* of the same month has equal size and digest and a path that no Remove of the
\* plan targets; and when the plan has been applied a file of that size and
\* digest is still found under the target.
C20_NoContentLost ==
    PlanFinished =>
        /\ \A t \in RemoveTargets : \E x \in DeletedRecords : x.path = t
        /\ \A x \in DeletedRecords :
              /\ \E r \in AllRecords :
                    /\ MonthOf(r.datetime) = MonthOf(x.datetime)
                       \/ r \in {PoolOf(x)[k] : k \in 1..Len(PoolOf(x))}
                    /\ is_duplicate_of(r, x)
                    /\ r.path # x.path
                    /\ r.path \notin RemoveTargets
              /\ (pc = "done" /\ Executed) =>
                    \E p \in create_simulacrum(fs) :
                        /\ is_file(fs, p)
                        /\ fs[p].size = x.size
                        /\ fs[p].hash = x.hash

-----------------------------------------------------------------------------
(* The order of the commands in the plan.                                  *)

\* the place of a command's class in the plan: MakeDirectory, Remove, Move
CommandRank(cmd) ==
    CASE cmd.op = "mkdir" -> 0
      [] cmd.op = "rm"    -> 1
      [] cmd.op = "mv"    -> 2

\* the positions of the MakeDirectory commands in the plan
MakeDirectoryIndexes == {i \in 1..Len(commands) : commands[i].op = "mkdir"}

\* C21: in the plan, as far as it is built, no Remove or Move comes before a
\* MakeDirectory and no Move before a Remove; every Move into a directory that
\* did not exist when prepare started has the MakeDirectory of that directory
\* before it; and no directory has two MakeDirectory commands.
C21_PlanOrder ==
    /\ \A i, j \in 1..Len(commands) :
          i < j => CommandRank(commands[i]) <= CommandRank(commands[j])
    /\ \A k \in MoveIndexes :
          ~exists(fs0, Parent(commands[k].dest)) =>
              \E i \in 1..(k - 1) : commands[i] = MakeDirectory(Parent(commands[k].dest))
    /\ \A i, j \in MakeDirectoryIndexes :
          commands[i].directory = commands[j].directory => i = j

\* C21 witness: a finished plan with commands of the three classes, whose Move
\* goes into a directory that was missing and is made by the plan
C21_Witness ==
    /\ PlanFinished
    /\ \E i \in MakeDirectoryIndexes, j \in RemoveIndexes, k \in MoveIndexes :
          /\ i < j
          /\ j < k
          /\ ~exists(fs0, commands[i].directory)
          /\ Parent(commands[k].dest) = commands[i].directory

====
